---- MODULE Spec2Model ----
(***************************************************************************)
(* tc_viz: the IBTrACS track loader (ibtracs.py), the track renderer       *)
(* (plot.py) and the command-line entry point (cli.py).                    *)
(*                                                                         *)
(* A run is one of: the command line (cli.main: arguments, loader, then    *)
(* renderer), a call of get_storm_track, a call of plot_track.             *)
(*                                                                         *)
(* Text cells of the archive (the name, the official wind and pressure,    *)
(* the quadrant radii) are sequences of one-character strings, so that the *)
(* comparisons with " " and Python's int() are computed on the text; the   *)
(* archive keeps them as text whatever the file (with the row of units     *)
(* every column of an IBTrACS file is read as text).  Timestamps are       *)
(* <<year, month, day, hour>> and latitudes and longitudes whole degrees:  *)
(* the parsing of dates and floats is not modelled.  Plot coordinates are  *)
(* exact rationals [n, d] (a radius is int(v) / scale, the scale a float   *)
(* of whole value, as config.py and argparse give it).  Of the columns the *)
(* loader keeps, those of the REUNION and BOM radii, which no code reads,  *)
(* are left out.                                                           *)
(***************************************************************************)
EXTENDS Integers, Sequences, FiniteSets, TLC

VARIABLES
    pc,           \* position of the run
    caller,       \* "main" (cli.main) or "api" (a direct call of the package)
    args,         \* the argparse namespace of cli.parse_args
    call,         \* the arguments get_storm_track is called with
    archive,      \* the rows of the CSV after the column-name row
    track,        \* the DataFrame get_storm_track returned / plot_track is given
    radius_scale, \* the radius_scale plot_track is called with
    extent,       \* the extent handed to ax.set_extent
    i,            \* plot_track: loop index
    k,            \* plot_track: position in the list of thresholds
    sign,         \* plot_track: annotation side
    rings,        \* the calls of draw_wind_radii_arcs, with what each drew
    markers,      \* the ax.plot markers
    annotations,  \* the ax.annotate labels
    err           \* the exception that ended the run, or "none"

vars == <<pc, caller, args, call, archive, track, radius_scale, extent, i, k,
          sign, rings, markers, annotations, err>>

----------------------------------------------------------------------------
(* Bounds of the model.                                                    *)

MaxLoadRows == 2
MaxPlotRows == 3
MaxCliRows == 2

----------------------------------------------------------------------------
(* config.py                                                               *)

RADIUS_SCALE == 70
MAP_OFFSET == 10
ANNOTATION_OFFSET_POS == <<180, 5>>
ANNOTATION_OFFSET_NEG == <<-280, -5>>
COLOR_R34 == "crimson"
COLOR_R50 == "blue"
COLOR_R64 == "green"

----------------------------------------------------------------------------
(* Cells.                                                                  *)

\* the cell IBTrACS writes for "no value": one space
Blank == <<" ">>

\* pandas' missing value (what read_csv makes of an empty field)
NaN == <<"NaN">>

IsNa(v) == v = NaN

\* the columns read as text
TextColumns ==
    {"NAME", "WMO_WIND", "WMO_PRES",
     "USA_R34_SE", "USA_R34_NE", "USA_R34_SW", "USA_R34_NW",
     "USA_R50_SE", "USA_R50_NE", "USA_R50_SW", "USA_R50_NW",
     "USA_R64_SE", "USA_R64_NE", "USA_R64_SW", "USA_R64_NW"}

\* the texts pd.read_csv reads as NaN by default, the empty field first
NaValues ==
    {<<>>,
     <<"#", "N", "/", "A">>,
     <<"#", "N", "/", "A", " ", "N", "/", "A">>,
     <<"#", "N", "A">>,
     <<"-", "1", ".", "#", "I", "N", "D">>,
     <<"-", "1", ".", "#", "Q", "N", "A", "N">>,
     <<"-", "N", "a", "N">>,
     <<"-", "n", "a", "n">>,
     <<"1", ".", "#", "I", "N", "D">>,
     <<"1", ".", "#", "Q", "N", "A", "N">>,
     <<"<", "N", "A", ">">>,
     <<"N", "/", "A">>,
     <<"N", "A">>,
     <<"N", "U", "L", "L">>,
     <<"N", "a", "N">>,
     <<"N", "o", "n", "e">>,
     <<"n", "/", "a">>,
     <<"n", "a", "n">>,
     <<"n", "u", "l", "l">>}

\* pd.read_csv: a field in NaValues is NaN, any other text is kept as it is
ReadCell(c) == IF c \in NaValues THEN NaN ELSE c

\* pd.read_csv: the rows with their cells, indexed 0, 1, 2, ...
ReadCsv(rows) ==
    [j \in 1..Len(rows) |->
        ("idx" :> (j - 1)) @@
        [c \in DOMAIN rows[j] |->
            IF c \in TextColumns THEN ReadCell(rows[j][c]) ELSE rows[j][c]]]

----------------------------------------------------------------------------
(* Python's int() of a text.  A character outside printable ASCII is the   *)
(* one-element string of its code point, as "U+00A0"; tab, line feed, form *)
(* feed and carriage return are "\t", "\n", "\f" and "\r".                 *)

\* the white space int() drops at both ends of the text
WhiteSpace ==
    {"\t", "\n", "U+000B", "\f", "\r", " ", "U+0085", "U+00A0", "U+1680",
     "U+2000", "U+2001", "U+2002", "U+2003", "U+2004", "U+2005", "U+2006",
     "U+2007", "U+2008", "U+2009", "U+200A", "U+2028", "U+2029", "U+202F",
     "U+205F", "U+3000"}

IsSpace(c) == c \in WhiteSpace

RECURSIVE LStrip(_)
LStrip(s) == IF s # <<>> /\ IsSpace(Head(s)) THEN LStrip(Tail(s)) ELSE s

RECURSIVE RStrip(_)
RStrip(s) ==
    IF s # <<>> /\ IsSpace(s[Len(s)]) THEN RStrip(SubSeq(s, 1, Len(s) - 1)) ELSE s

\* the decimal digits of Unicode 14.0.0, a script to a row, from its zero to
\* its nine
DigitBlocks ==
    {<<"0", "1", "2", "3", "4", "5", "6", "7", "8", "9">>,
     <<"U+0660", "U+0661", "U+0662", "U+0663", "U+0664",
       "U+0665", "U+0666", "U+0667", "U+0668", "U+0669">>,
     <<"U+06F0", "U+06F1", "U+06F2", "U+06F3", "U+06F4",
       "U+06F5", "U+06F6", "U+06F7", "U+06F8", "U+06F9">>,
     <<"U+07C0", "U+07C1", "U+07C2", "U+07C3", "U+07C4",
       "U+07C5", "U+07C6", "U+07C7", "U+07C8", "U+07C9">>,
     <<"U+0966", "U+0967", "U+0968", "U+0969", "U+096A",
       "U+096B", "U+096C", "U+096D", "U+096E", "U+096F">>,
     <<"U+09E6", "U+09E7", "U+09E8", "U+09E9", "U+09EA",
       "U+09EB", "U+09EC", "U+09ED", "U+09EE", "U+09EF">>,
     <<"U+0A66", "U+0A67", "U+0A68", "U+0A69", "U+0A6A",
       "U+0A6B", "U+0A6C", "U+0A6D", "U+0A6E", "U+0A6F">>,
     <<"U+0AE6", "U+0AE7", "U+0AE8", "U+0AE9", "U+0AEA",
       "U+0AEB", "U+0AEC", "U+0AED", "U+0AEE", "U+0AEF">>,
     <<"U+0B66", "U+0B67", "U+0B68", "U+0B69", "U+0B6A",
       "U+0B6B", "U+0B6C", "U+0B6D", "U+0B6E", "U+0B6F">>,
     <<"U+0BE6", "U+0BE7", "U+0BE8", "U+0BE9", "U+0BEA",
       "U+0BEB", "U+0BEC", "U+0BED", "U+0BEE", "U+0BEF">>,
     <<"U+0C66", "U+0C67", "U+0C68", "U+0C69", "U+0C6A",
       "U+0C6B", "U+0C6C", "U+0C6D", "U+0C6E", "U+0C6F">>,
     <<"U+0CE6", "U+0CE7", "U+0CE8", "U+0CE9", "U+0CEA",
       "U+0CEB", "U+0CEC", "U+0CED", "U+0CEE", "U+0CEF">>,
     <<"U+0D66", "U+0D67", "U+0D68", "U+0D69", "U+0D6A",
       "U+0D6B", "U+0D6C", "U+0D6D", "U+0D6E", "U+0D6F">>,
     <<"U+0DE6", "U+0DE7", "U+0DE8", "U+0DE9", "U+0DEA",
       "U+0DEB", "U+0DEC", "U+0DED", "U+0DEE", "U+0DEF">>,
     <<"U+0E50", "U+0E51", "U+0E52", "U+0E53", "U+0E54",
       "U+0E55", "U+0E56", "U+0E57", "U+0E58", "U+0E59">>,
     <<"U+0ED0", "U+0ED1", "U+0ED2", "U+0ED3", "U+0ED4",
       "U+0ED5", "U+0ED6", "U+0ED7", "U+0ED8", "U+0ED9">>,
     <<"U+0F20", "U+0F21", "U+0F22", "U+0F23", "U+0F24",
       "U+0F25", "U+0F26", "U+0F27", "U+0F28", "U+0F29">>,
     <<"U+1040", "U+1041", "U+1042", "U+1043", "U+1044",
       "U+1045", "U+1046", "U+1047", "U+1048", "U+1049">>,
     <<"U+1090", "U+1091", "U+1092", "U+1093", "U+1094",
       "U+1095", "U+1096", "U+1097", "U+1098", "U+1099">>,
     <<"U+17E0", "U+17E1", "U+17E2", "U+17E3", "U+17E4",
       "U+17E5", "U+17E6", "U+17E7", "U+17E8", "U+17E9">>,
     <<"U+1810", "U+1811", "U+1812", "U+1813", "U+1814",
       "U+1815", "U+1816", "U+1817", "U+1818", "U+1819">>,
     <<"U+1946", "U+1947", "U+1948", "U+1949", "U+194A",
       "U+194B", "U+194C", "U+194D", "U+194E", "U+194F">>,
     <<"U+19D0", "U+19D1", "U+19D2", "U+19D3", "U+19D4",
       "U+19D5", "U+19D6", "U+19D7", "U+19D8", "U+19D9">>,
     <<"U+1A80", "U+1A81", "U+1A82", "U+1A83", "U+1A84",
       "U+1A85", "U+1A86", "U+1A87", "U+1A88", "U+1A89">>,
     <<"U+1A90", "U+1A91", "U+1A92", "U+1A93", "U+1A94",
       "U+1A95", "U+1A96", "U+1A97", "U+1A98", "U+1A99">>,
     <<"U+1B50", "U+1B51", "U+1B52", "U+1B53", "U+1B54",
       "U+1B55", "U+1B56", "U+1B57", "U+1B58", "U+1B59">>,
     <<"U+1BB0", "U+1BB1", "U+1BB2", "U+1BB3", "U+1BB4",
       "U+1BB5", "U+1BB6", "U+1BB7", "U+1BB8", "U+1BB9">>,
     <<"U+1C40", "U+1C41", "U+1C42", "U+1C43", "U+1C44",
       "U+1C45", "U+1C46", "U+1C47", "U+1C48", "U+1C49">>,
     <<"U+1C50", "U+1C51", "U+1C52", "U+1C53", "U+1C54",
       "U+1C55", "U+1C56", "U+1C57", "U+1C58", "U+1C59">>,
     <<"U+A620", "U+A621", "U+A622", "U+A623", "U+A624",
       "U+A625", "U+A626", "U+A627", "U+A628", "U+A629">>,
     <<"U+A8D0", "U+A8D1", "U+A8D2", "U+A8D3", "U+A8D4",
       "U+A8D5", "U+A8D6", "U+A8D7", "U+A8D8", "U+A8D9">>,
     <<"U+A900", "U+A901", "U+A902", "U+A903", "U+A904",
       "U+A905", "U+A906", "U+A907", "U+A908", "U+A909">>,
     <<"U+A9D0", "U+A9D1", "U+A9D2", "U+A9D3", "U+A9D4",
       "U+A9D5", "U+A9D6", "U+A9D7", "U+A9D8", "U+A9D9">>,
     <<"U+A9F0", "U+A9F1", "U+A9F2", "U+A9F3", "U+A9F4",
       "U+A9F5", "U+A9F6", "U+A9F7", "U+A9F8", "U+A9F9">>,
     <<"U+AA50", "U+AA51", "U+AA52", "U+AA53", "U+AA54",
       "U+AA55", "U+AA56", "U+AA57", "U+AA58", "U+AA59">>,
     <<"U+ABF0", "U+ABF1", "U+ABF2", "U+ABF3", "U+ABF4",
       "U+ABF5", "U+ABF6", "U+ABF7", "U+ABF8", "U+ABF9">>,
     <<"U+FF10", "U+FF11", "U+FF12", "U+FF13", "U+FF14",
       "U+FF15", "U+FF16", "U+FF17", "U+FF18", "U+FF19">>,
     <<"U+104A0", "U+104A1", "U+104A2", "U+104A3", "U+104A4",
       "U+104A5", "U+104A6", "U+104A7", "U+104A8", "U+104A9">>,
     <<"U+10D30", "U+10D31", "U+10D32", "U+10D33", "U+10D34",
       "U+10D35", "U+10D36", "U+10D37", "U+10D38", "U+10D39">>,
     <<"U+11066", "U+11067", "U+11068", "U+11069", "U+1106A",
       "U+1106B", "U+1106C", "U+1106D", "U+1106E", "U+1106F">>,
     <<"U+110F0", "U+110F1", "U+110F2", "U+110F3", "U+110F4",
       "U+110F5", "U+110F6", "U+110F7", "U+110F8", "U+110F9">>,
     <<"U+11136", "U+11137", "U+11138", "U+11139", "U+1113A",
       "U+1113B", "U+1113C", "U+1113D", "U+1113E", "U+1113F">>,
     <<"U+111D0", "U+111D1", "U+111D2", "U+111D3", "U+111D4",
       "U+111D5", "U+111D6", "U+111D7", "U+111D8", "U+111D9">>,
     <<"U+112F0", "U+112F1", "U+112F2", "U+112F3", "U+112F4",
       "U+112F5", "U+112F6", "U+112F7", "U+112F8", "U+112F9">>,
     <<"U+11450", "U+11451", "U+11452", "U+11453", "U+11454",
       "U+11455", "U+11456", "U+11457", "U+11458", "U+11459">>,
     <<"U+114D0", "U+114D1", "U+114D2", "U+114D3", "U+114D4",
       "U+114D5", "U+114D6", "U+114D7", "U+114D8", "U+114D9">>,
     <<"U+11650", "U+11651", "U+11652", "U+11653", "U+11654",
       "U+11655", "U+11656", "U+11657", "U+11658", "U+11659">>,
     <<"U+116C0", "U+116C1", "U+116C2", "U+116C3", "U+116C4",
       "U+116C5", "U+116C6", "U+116C7", "U+116C8", "U+116C9">>,
     <<"U+11730", "U+11731", "U+11732", "U+11733", "U+11734",
       "U+11735", "U+11736", "U+11737", "U+11738", "U+11739">>,
     <<"U+118E0", "U+118E1", "U+118E2", "U+118E3", "U+118E4",
       "U+118E5", "U+118E6", "U+118E7", "U+118E8", "U+118E9">>,
     <<"U+11950", "U+11951", "U+11952", "U+11953", "U+11954",
       "U+11955", "U+11956", "U+11957", "U+11958", "U+11959">>,
     <<"U+11C50", "U+11C51", "U+11C52", "U+11C53", "U+11C54",
       "U+11C55", "U+11C56", "U+11C57", "U+11C58", "U+11C59">>,
     <<"U+11D50", "U+11D51", "U+11D52", "U+11D53", "U+11D54",
       "U+11D55", "U+11D56", "U+11D57", "U+11D58", "U+11D59">>,
     <<"U+11DA0", "U+11DA1", "U+11DA2", "U+11DA3", "U+11DA4",
       "U+11DA5", "U+11DA6", "U+11DA7", "U+11DA8", "U+11DA9">>,
     <<"U+16A60", "U+16A61", "U+16A62", "U+16A63", "U+16A64",
       "U+16A65", "U+16A66", "U+16A67", "U+16A68", "U+16A69">>,
     <<"U+16AC0", "U+16AC1", "U+16AC2", "U+16AC3", "U+16AC4",
       "U+16AC5", "U+16AC6", "U+16AC7", "U+16AC8", "U+16AC9">>,
     <<"U+16B50", "U+16B51", "U+16B52", "U+16B53", "U+16B54",
       "U+16B55", "U+16B56", "U+16B57", "U+16B58", "U+16B59">>,
     <<"U+1D7CE", "U+1D7CF", "U+1D7D0", "U+1D7D1", "U+1D7D2",
       "U+1D7D3", "U+1D7D4", "U+1D7D5", "U+1D7D6", "U+1D7D7">>,
     <<"U+1D7D8", "U+1D7D9", "U+1D7DA", "U+1D7DB", "U+1D7DC",
       "U+1D7DD", "U+1D7DE", "U+1D7DF", "U+1D7E0", "U+1D7E1">>,
     <<"U+1D7E2", "U+1D7E3", "U+1D7E4", "U+1D7E5", "U+1D7E6",
       "U+1D7E7", "U+1D7E8", "U+1D7E9", "U+1D7EA", "U+1D7EB">>,
     <<"U+1D7EC", "U+1D7ED", "U+1D7EE", "U+1D7EF", "U+1D7F0",
       "U+1D7F1", "U+1D7F2", "U+1D7F3", "U+1D7F4", "U+1D7F5">>,
     <<"U+1D7F6", "U+1D7F7", "U+1D7F8", "U+1D7F9", "U+1D7FA",
       "U+1D7FB", "U+1D7FC", "U+1D7FD", "U+1D7FE", "U+1D7FF">>,
     <<"U+1E140", "U+1E141", "U+1E142", "U+1E143", "U+1E144",
       "U+1E145", "U+1E146", "U+1E147", "U+1E148", "U+1E149">>,
     <<"U+1E2F0", "U+1E2F1", "U+1E2F2", "U+1E2F3", "U+1E2F4",
       "U+1E2F5", "U+1E2F6", "U+1E2F7", "U+1E2F8", "U+1E2F9">>,
     <<"U+1E950", "U+1E951", "U+1E952", "U+1E953", "U+1E954",
       "U+1E955", "U+1E956", "U+1E957", "U+1E958", "U+1E959">>,
     <<"U+1FBF0", "U+1FBF1", "U+1FBF2", "U+1FBF3", "U+1FBF4",
       "U+1FBF5", "U+1FBF6", "U+1FBF7", "U+1FBF8", "U+1FBF9">>}

Digits == UNION {{b[j] : j \in 1..10} : b \in DigitBlocks}

\* the value of each digit
DecimalOf ==
    [c \in Digits |->
        LET b == CHOOSE d \in DigitBlocks : \E j \in 1..10 : d[j] = c
        IN  (CHOOSE j \in 1..10 : b[j] = c) - 1]

DigitVal(c) == DecimalOf[c]

RECURSIVE DigitsVal(_)
DigitsVal(s) ==
    IF s = <<>> THEN 0
    ELSE 10 * DigitsVal(SubSeq(s, 1, Len(s) - 1)) + DigitVal(s[Len(s)])

\* the digits of a literal, its underscores taken out
Ungrouped(s) == SelectSeq(s, LAMBDA c : c # "_")

\* a literal of int(): digits, with single underscores allowed between two
\* of them
IsLiteral(s) ==
    /\ s # <<>>
    /\ \A j \in 1..Len(s) : s[j] \in Digits \/ s[j] = "_"
    /\ Head(s) \in Digits
    /\ s[Len(s)] \in Digits
    /\ \A j \in 1..(Len(s) - 1) : ~(s[j] = "_" /\ s[j + 1] = "_")

\* sys.get_int_max_str_digits(): the most digits int() converts
IntMaxStrDigits == 4300

\* the text less its surrounding white space and its sign
Unsigned(v) ==
    LET s == RStrip(LStrip(v))
    IN  IF s # <<>> /\ Head(s) \in {"+", "-"} THEN Tail(s) ELSE s

\* int(v) returns: surrounding white space is dropped, one sign is allowed,
\* the rest must be a literal of at most IntMaxStrDigits digits, leading
\* zeros counted
IntAccepts(v) ==
    /\ IsLiteral(Unsigned(v))
    /\ Len(Ungrouped(Unsigned(v))) <= IntMaxStrDigits

\* int(v): the value, or ValueError
PyInt(v) ==
    LET s == RStrip(LStrip(v))
        body == Unsigned(v)
    IN  IF ~IntAccepts(v) THEN [ok |-> FALSE, val |-> 0]
        ELSE [ok |-> TRUE,
              val |-> IF Head(s) = "-"
                      THEN -DigitsVal(Ungrouped(body))
                      ELSE DigitsVal(Ungrouped(body))]

\* the digits of the magnitude of int(v), leading zeros dropped
Magnitude(v) ==
    LET d == [j \in 1..Len(Ungrouped(Unsigned(v))) |->
                 DigitVal(Ungrouped(Unsigned(v))[j])]
        nz == {j \in 1..Len(d) : d[j] # 0}
    IN  IF nz = {} THEN <<>>
        ELSE SubSeq(d, CHOOSE j \in nz : \A m \in nz : j <= m, Len(d))

\* 2^1024 - 2^970, the least magnitude that no float holds
FloatOverflow ==
    <<1, 7, 9, 7, 6, 9, 3, 1, 3, 4, 8, 6, 2, 3, 1, 5, 8, 0, 7, 9, 3, 7, 2, 8, 9,
      7, 1, 4, 0, 5, 3, 0, 3, 4, 1, 5, 0, 7, 9, 9, 3, 4, 1, 3, 2, 7, 1, 0, 0, 3,
      7, 8, 2, 6, 9, 3, 6, 1, 7, 3, 7, 7, 8, 9, 8, 0, 4, 4, 4, 9, 6, 8, 2, 9, 2,
      7, 6, 4, 7, 5, 0, 9, 4, 6, 6, 4, 9, 0, 1, 7, 9, 7, 7, 5, 8, 7, 2, 0, 7, 0,
      9, 6, 3, 3, 0, 2, 8, 6, 4, 1, 6, 6, 9, 2, 8, 8, 7, 9, 1, 0, 9, 4, 6, 5, 5,
      5, 5, 4, 7, 8, 5, 1, 9, 4, 0, 4, 0, 2, 6, 3, 0, 6, 5, 7, 4, 8, 8, 6, 7, 1,
      5, 0, 5, 8, 2, 0, 6, 8, 1, 9, 0, 8, 9, 0, 2, 0, 0, 0, 7, 0, 8, 3, 8, 3, 6,
      7, 6, 2, 7, 3, 8, 5, 4, 8, 4, 5, 8, 1, 7, 7, 1, 1, 5, 3, 1, 7, 6, 4, 4, 7,
      5, 7, 3, 0, 2, 7, 0, 0, 6, 9, 8, 5, 5, 5, 7, 1, 3, 6, 6, 9, 5, 9, 6, 2, 2,
      8, 4, 2, 9, 1, 4, 8, 1, 9, 8, 6, 0, 8, 3, 4, 9, 3, 6, 4, 7, 5, 2, 9, 2, 7,
      1, 9, 0, 7, 4, 1, 6, 8, 4, 4, 4, 3, 6, 5, 5, 1, 0, 7, 0, 4, 3, 4, 2, 7, 1,
      1, 5, 5, 9, 6, 9, 9, 5, 0, 8, 0, 9, 3, 0, 4, 2, 8, 8, 0, 1, 7, 7, 9, 0, 4,
      1, 7, 4, 4, 9, 7, 7, 9, 2>>

\* a >= b, for two magnitudes
MagnitudeGeq(a, b) ==
    \/ Len(a) > Len(b)
    \/ /\ Len(a) = Len(b)
       /\ \/ a = b
          \/ \E j \in 1..Len(a) :
                /\ a[j] > b[j]
                /\ \A m \in 1..(j - 1) : a[m] = b[m]

\* float(int(v)) raises OverflowError
FloatRaises(v) == MagnitudeGeq(Magnitude(v), FloatOverflow)

----------------------------------------------------------------------------
(* Exact rationals for plot coordinates.                                   *)

Abs(n) == IF n < 0 THEN -n ELSE n

RECURSIVE Gcd(_, _)
Gcd(a, b) == IF b = 0 THEN a ELSE Gcd(b, a % b)

\* n / d in lowest terms, d > 0
Rat(n, d) ==
    LET g == Gcd(Abs(n), Abs(d))
        s == IF d < 0 THEN -1 ELSE 1
    IN  [n |-> (s * n) \div g, d |-> (s * d) \div g]

RAdd(a, b) == Rat(a.n * b.d + b.n * a.d, a.d * b.d)
RSub(a, b) == Rat(a.n * b.d - b.n * a.d, a.d * b.d)
RTwice(a) == Rat(2 * a.n, a.d)

----------------------------------------------------------------------------
(* ibtracs.py: the track loader.                                           *)

\* a < b for timestamps <<year, month, day, hour>>
TsLess(a, b) ==
    \E j \in 1..4 : a[j] < b[j] /\ \A h \in 1..(j - 1) : a[h] = b[h]

\* pd.to_datetime(str(year)): the first instant of the year
YearToDatetime(year) == <<year, 1, 1, 0>>

\* _lon_to_360
LonTo360Unwrapped(dlon) == 360 + (dlon % 360)
_lon_to_360(dlon) == (360 + (dlon % 360)) % 360

\* data.iloc[1:, :]
DropUnitsRow(data) == SubSeq(data, 2, Len(data))

\* data[data["NAME"] == name]
SelectName(data, name) == SelectSeq(data, LAMBDA r : r.NAME = name)

\* data[(ISO_TIME >= year_start) & (ISO_TIME < year_end)]
InYear(t, year) ==
    /\ ~TsLess(t, YearToDatetime(year))
    /\ TsLess(t, YearToDatetime(year + 1))

SelectYear(data, year) == SelectSeq(data, LAMBDA r : InYear(r.ISO_TIME, year))

\* data[data["WMO_WIND"] != " "], then data[data["WMO_PRES"] != " "]
FilterMissingWmo(data) ==
    SelectSeq(SelectSeq(data, LAMBDA r : r.WMO_WIND # Blank),
              LAMBDA r : r.WMO_PRES # Blank)

\* data["LON_180"] = data["LON"]; data["LON"] = data["LON"].apply(_lon_to_360)
ConvertLonRow(r) ==
    ("LON_180" :> r.LON) @@ [r EXCEPT !.LON = _lon_to_360(r.LON)]

ConvertLon(data) == [j \in 1..Len(data) |-> ConvertLonRow(data[j])]

get_storm_track(name, year, ibtracs_csv, filter_missing_wmo) ==
    LET data0 == DropUnitsRow(ReadCsv(ibtracs_csv))
        data1 == SelectYear(SelectName(data0, name), year)
        data2 == IF filter_missing_wmo THEN FilterMissingWmo(data1) ELSE data1
    IN  ConvertLon(data2)

----------------------------------------------------------------------------
(* plot.py: the wind radii geometry.                                       *)

\* patches.Arc(xy, width, height, theta1, theta2, ec)
Arc(xy, width, height, theta1, theta2, ec) ==
    [xy |-> xy, width |-> width, height |-> height,
     theta1 |-> theta1, theta2 |-> theta2, ec |-> ec]

\* ax.hlines(y, xmin, xmax): line j runs at y[j] from xmin[j] to xmax[j]
HLines(y, xmin, xmax, colors) ==
    [j \in 1..Len(y) |->
        [orient |-> "h", at |-> y[j], lo |-> xmin[j], hi |-> xmax[j],
         ec |-> colors]]

\* ax.vlines(x, ymin, ymax): line j runs at x[j] from ymin[j] to ymax[j]
VLines(x, ymin, ymax, colors) ==
    [j \in 1..Len(x) |->
        [orient |-> "v", at |-> x[j], lo |-> ymin[j], hi |-> ymax[j],
         ec |-> colors]]

Thetas == <<0, 90, 180, 270>>

\* the spokes with each one joining the opposite extents of two quadrants
SpokesAcross(xcenter, ycenter, radii, ec) ==
    HLines(<<ycenter, ycenter>>,
           <<RAdd(xcenter, radii[1]), RAdd(xcenter, radii[4])>>,
           <<RSub(xcenter, radii[2]), RSub(xcenter, radii[3])>>, ec)
    \o
    VLines(<<xcenter, xcenter>>,
           <<RAdd(ycenter, radii[1]), RAdd(ycenter, radii[2])>>,
           <<RSub(ycenter, radii[3]), RSub(ycenter, radii[4])>>, ec)

\* the hlines and vlines calls of draw_wind_radii_arcs; radii = [SE, NE, SW, NW]
Spokes(xcenter, ycenter, radii, ec) ==
    HLines(<<ycenter, ycenter>>,
           <<RAdd(xcenter, radii[1]), RSub(xcenter, radii[2])>>,
           <<RAdd(xcenter, radii[4]), RSub(xcenter, radii[3])>>, ec)
    \o
    VLines(<<xcenter, xcenter>>,
           <<RAdd(ycenter, radii[1]), RSub(ycenter, radii[3])>>,
           <<RAdd(ycenter, radii[2]), RSub(ycenter, radii[4])>>, ec)

\* what one call draws: four arcs, then the spokes
draw_wind_radii_arcs(xcenter, ycenter, radii, ec) ==
    [arcs |->
        [j \in 1..Len(radii) |->
            Arc(<<xcenter, ycenter>>, RTwice(radii[j]), RTwice(radii[j]),
                Thetas[j], Thetas[j] + 90, ec)],
     spokes |-> Spokes(xcenter, ycenter, radii, ec)]

Quadrants == <<"SE", "NE", "SW", "NW">>

\* int(v) / scale for a float scale: the exception it raises, or "none".
\* int() comes first, then the conversion of the integer to a float, then
\* the division
Raised(v, scale) ==
    IF ~IntAccepts(v) THEN "ValueError"
    ELSE IF FloatRaises(v) THEN "OverflowError"
    ELSE IF scale = 0 THEN "ZeroDivisionError"
    ELSE "none"

\* _parse_radii: None, the four scaled radii, or the exception of the
\* first int(v) / scale that raises, the values taken in order
_parse_radii(row, prefix, scale) ==
    LET values == [j \in 1..4 |-> row[prefix \o "_" \o Quadrants[j]]]
        raising == {j \in 1..4 : Raised(values[j], scale) # "none"}
    IN  IF \E j \in 1..4 : values[j] = Blank \/ IsNa(values[j])
        THEN [tag |-> "None", radii |-> <<>>]
        ELSE IF raising # {}
        THEN [tag |-> Raised(values[CHOOSE j \in raising :
                                       \A m \in raising : j <= m], scale),
              radii |-> <<>>]
        ELSE [tag |-> "radii",
              radii |-> [j \in 1..4 |-> Rat(PyInt(values[j]).val, scale)]]

----------------------------------------------------------------------------
(* plot.py: the map and the track.                                         *)

\* a float that may be nan
Num(v) == [nan |-> FALSE, v |-> v]
FloatNaN == [nan |-> TRUE, v |-> 0]
FAdd(a, b) == IF a.nan THEN FloatNaN ELSE Num(a.v + b)

\* Series.min() and Series.max(): nan for an empty series
SeriesMin(s) ==
    IF s = <<>> THEN FloatNaN
    ELSE Num(CHOOSE m \in {s[j] : j \in 1..Len(s)} :
                \A j \in 1..Len(s) : m <= s[j])

SeriesMax(s) ==
    IF s = <<>> THEN FloatNaN
    ELSE Num(CHOOSE m \in {s[j] : j \in 1..Len(s)} :
                \A j \in 1..Len(s) : m >= s[j])

\* the extent _setup_map hands to ax.set_extent
MapExtent(t, offset) ==
    LET lats == [j \in 1..Len(t) |-> t[j].LAT]
        lons == [j \in 1..Len(t) |-> t[j].LON]
    IN  <<FAdd(SeriesMin(lons), -offset), FAdd(SeriesMax(lons), offset),
          FAdd(SeriesMin(lats), -offset), FAdd(SeriesMax(lats), offset)>>

\* ax.set_extent ends in set_xlim/set_ylim, which refuse a limit that is nan
SetExtentRaises(ext) == \E j \in 1..4 : ext[j].nan

\* ax.projection.transform_point(lon, lat, src_crs=PlateCarree) on a
\* PlateCarree axes: the longitude is brought back into [-180, 180]
TransformPoint(lon, lat) ==
    <<Rat(IF lon > 180 \/ lon < -180 THEN ((lon + 180) % 360) - 180 ELSE lon, 1),
      Rat(lat, 1)>>

\* the thresholds of plot_track, in the order of its loop
Thresholds ==
    << [prefix |-> "USA_R34", color |-> COLOR_R34],
       [prefix |-> "USA_R50", color |-> COLOR_R50],
       [prefix |-> "USA_R64", color |-> COLOR_R64] >>

\* x_off, y_off = ANNOTATION_OFFSET_POS if sign > 0 else ANNOTATION_OFFSET_NEG
AnnotationOffset(s) ==
    IF s > 0 THEN ANNOTATION_OFFSET_POS ELSE ANNOTATION_OFFSET_NEG

\* time_str and info_str: day and hour of the timestamp, wind, pressure
InfoStr(row) ==
    [day |-> row.ISO_TIME[3], hour |-> row.ISO_TIME[4],
     wind |-> row.WMO_WIND, pres |-> row.WMO_PRES]


\* sign *= -1
NextSignKept(s) == s
NextSign(s) == s * (-1)

----------------------------------------------------------------------------
(* The archives and tracks the runs are given.                             *)

IDA == <<"I", "D", "A">>
ida == <<"i", "d", "a">>

\* one observation row of the archive; r34, r50, r64 are [SE, NE, SW, NW]
Obs(name, time, wind, pres, lat, lon, r34, r50, r64) ==
    [NAME |-> name, ISO_TIME |-> time, WMO_WIND |-> wind, WMO_PRES |-> pres,
     LAT |-> lat, LON |-> lon,
     USA_R34_SE |-> r34[1], USA_R34_NE |-> r34[2],
     USA_R34_SW |-> r34[3], USA_R34_NW |-> r34[4],
     USA_R50_SE |-> r50[1], USA_R50_NE |-> r50[2],
     USA_R50_SW |-> r50[3], USA_R50_NW |-> r50[4],
     USA_R64_SE |-> r64[1], USA_R64_NE |-> r64[2],
     USA_R64_SW |-> r64[3], USA_R64_NW |-> r64[4]]

\* the row of units that follows the column names in an IBTrACS file
Nmile == <<"n", "m", "i", "l", "e">>
UnitsRow ==
    Obs(Blank, Blank, <<"k", "t", "s">>, <<"m", "b">>,
        "degrees_north", "degrees_east",
        <<Nmile, Nmile, Nmile, Nmile>>, <<Nmile, Nmile, Nmile, Nmile>>,
        <<Nmile, Nmile, Nmile, Nmile>>)

Wind50 == <<"5", "0">>
Pres980 == <<"9", "8", "0">>
Abc == <<"a", "b", "c">>

Full34 == << <<"5", "0">>, <<"6", "0">>, <<"4", "0">>, <<"5", "5">> >>
Full50 == << <<"3", "0">>, <<"3", "5">>, <<"2", "0">>, <<"2", "5">> >>
Full64 == << <<"1", "5">>, <<"2", "0">>, <<"1", "0">>, <<"1", "5">> >>
AllBlank == <<Blank, Blank, Blank, Blank>>

\* rings with one quadrant blank, empty (read as NaN) or not a number
Rings34 ==
    {Full34,
     <<Blank, Full34[2], Full34[3], Full34[4]>>,
     <<Full34[1], <<>>, Full34[3], Full34[4]>>,
     <<Full34[1], Full34[2], Abc, Full34[4]>>}
\* the 50 kt and 64 kt rings of a row
Rings5064 ==
    {<<Full50, Full64>>,
     <<<<Full50[1], Full50[2], Full50[3], Abc>>, Full64>>,
     <<<<Full50[1], Full50[2], Full50[3], Blank>>, AllBlank>>}

MidYear == <<2021, 8, 29, 12>>

\* the rows of the archives given to get_storm_track: the name and the time
\* vary in the first family, the official fields in the second, the
\* longitude in the third
LoadTimes == {<<2020, 12, 31, 18>>, <<2021, 1, 1, 0>>, MidYear, <<2022, 1, 1, 0>>}
LoadWmo == {<<Blank, Pres980>>, <<Wind50, Blank>>, <<<<>>, Pres980>>}
LoadLons == {-180, 0, 179}
LoadRows ==
    {Obs(n, t, Wind50, Pres980, 20, -40, Full34, Full50, AllBlank) :
        n \in {IDA, ida}, t \in LoadTimes}
    \cup
    {Obs(IDA, MidYear, w[1], w[2], 20, -40, Full34, Full50, AllBlank) :
        w \in LoadWmo}
    \cup
    {Obs(IDA, MidYear, Wind50, Pres980, 20, l, Full34, Full50, AllBlank) :
        l \in LoadLons}

\* the rows of the tracks given to plot_track: the rings vary
PlotRows ==
    {Obs(IDA, MidYear, Wind50, Pres980, 20, -40, a, bc[1], bc[2]) :
        a \in Rings34, bc \in Rings5064}

\* the rows of the archives the command line is run on
CliRows ==
    {Obs(IDA, <<2021, 8, 29, 12>>, Blank, Blank, 29, -90, Full34, Full50, AllBlank),
     Obs(IDA, <<2021, 8, 30, 0>>, Wind50, Pres980, 31, -89, Full34, AllBlank, AllBlank),
     Obs(IDA, <<2020, 9, 1, 6>>, Blank, Pres980, 25, 170, AllBlank, AllBlank, AllBlank),
     Obs(IDA, <<2020, 9, 1, 12>>, Wind50, Pres980, 26, 171, Full34, Full50, Full64)}

SeqsUpTo(S, n) == UNION {[1..m -> S] : m \in 0..n}

\* an archive: observation rows, after the units row when the file has one
Archive(hasUnits, obs) == IF hasUnits THEN <<UnitsRow>> \o obs ELSE obs

\* the scales given: the default, and zero
RadiusScales == {RADIUS_SCALE, 0}

NoArgs ==
    [name |-> <<>>, year |-> 0, no_filter_wmo |-> FALSE,
     radius_scale |-> RADIUS_SCALE]
NoCall == [name |-> <<>>, year |-> 0, filter_missing_wmo |-> FALSE]

----------------------------------------------------------------------------
(* The runs.                                                               *)

InitFigure ==
    /\ extent = <<>>
    /\ i = 0
    /\ k = 1
    /\ sign = 1
    /\ rings = <<>>
    /\ markers = <<>>
    /\ annotations = <<>>
    /\ err = "none"

\* tc-viz --name N --year Y [--no-filter-wmo] [--radius-scale S]
InitCli ==
    /\ pc = "main"
    /\ caller = "main"
    /\ args \in [name : {IDA, ida}, year : {2020, 2021},
                 no_filter_wmo : BOOLEAN, radius_scale : RadiusScales]
    /\ radius_scale = RADIUS_SCALE
    /\ call = NoCall
    /\ \E hasUnits \in BOOLEAN, obs \in SeqsUpTo(CliRows, MaxCliRows) :
          archive = Archive(hasUnits, obs)
    /\ track = <<>>
    /\ InitFigure

\* tc_viz.get_storm_track(name, year, csv, filter_missing_wmo)
InitLoad ==
    /\ pc = "get_storm_track"
    /\ caller = "api"
    /\ args = NoArgs
    /\ call \in [name : {IDA}, year : {2020, 2021}, filter_missing_wmo : BOOLEAN]
    /\ radius_scale = RADIUS_SCALE
    /\ \E hasUnits \in BOOLEAN, obs \in SeqsUpTo(LoadRows, MaxLoadRows) :
          archive = Archive(hasUnits, obs)
    /\ track = <<>>
    /\ InitFigure

\* tc_viz.plot_track(track, name, radius_scale=S) on a track as the loader
\* makes them
InitPlot ==
    /\ pc = "plot_track"
    /\ caller = "api"
    /\ args = NoArgs
    /\ call = NoCall
    /\ archive = <<>>
    /\ \E obs \in SeqsUpTo(PlotRows, MaxPlotRows) :
          track = ConvertLon(ReadCsv(obs))
    /\ radius_scale \in RadiusScales
    /\ InitFigure

Init == InitCli \/ InitLoad \/ InitPlot

\* str.upper() on the letters of the names
UpperChar(c) ==
    CASE c = "i" -> "I" [] c = "d" -> "D" [] c = "a" -> "A" [] OTHER -> c
Upper(s) == [j \in 1..Len(s) |-> UpperChar(s[j])]

\* filter_wmo = not args.no_filter_wmo and args.year != 2021
FilterWmo(a) == ~a.no_filter_wmo /\ a.year # 2021

\* cli.main up to its call of get_storm_track
main ==
    /\ pc = "main"
    /\ call' = [name |-> Upper(args.name), year |-> args.year,
                filter_missing_wmo |-> FilterWmo(args)]
    /\ pc' = "get_storm_track"
    /\ UNCHANGED <<caller, args, archive, track, radius_scale, extent, i, k,
                   sign, rings, markers, annotations, err>>

\* the call of get_storm_track; cli.main goes on to call plot_track with
\* radius_scale=args.radius_scale
GetStormTrack ==
    /\ pc = "get_storm_track"
    /\ track' = get_storm_track(call.name, call.year, archive,
                                call.filter_missing_wmo)
    /\ pc' = IF caller = "main" THEN "plot_track" ELSE "returned"
    /\ radius_scale' = IF caller = "main" THEN args.radius_scale
                       ELSE radius_scale
    /\ UNCHANGED <<caller, args, call, archive, extent, i, k, sign,
                   rings, markers, annotations, err>>

\* plot_track up to its loop: _setup_map on the extent of the track
_setup_map ==
    /\ pc = "plot_track"
    /\ extent' = MapExtent(track, MAP_OFFSET)
    /\ IF SetExtentRaises(extent')
       THEN pc' = "failed" /\ err' = "ValueError: set_extent"
       ELSE /\ pc' = IF 0 < Len(track) THEN "radii" ELSE "save"
            /\ err' = err
    /\ i' = 0
    /\ k' = 1
    /\ sign' = 1
    /\ UNCHANGED <<caller, args, call, archive, track, radius_scale, rings,
                   markers, annotations>>

\* one turn of the loop over the thresholds, for row i
PlotRadii ==
    /\ pc = "radii"
    /\ LET row == track[i + 1]
           th == Thresholds[k]
           at == TransformPoint(row.LON, row.LAT)
           radii == _parse_radii(row, th.prefix, radius_scale)
       IN  IF radii.tag \in {"ValueError", "OverflowError", "ZeroDivisionError"}
           THEN /\ pc' = "failed"
                /\ err' = IF radii.tag = "ValueError" THEN "ValueError: int"
                          ELSE radii.tag
                /\ UNCHANGED <<k, rings>>
           ELSE /\ rings' =
                     IF radii.tag = "None" THEN rings
                     ELSE Append(rings,
                            [row |-> i, prefix |-> th.prefix,
                             xcenter |-> at[1], ycenter |-> at[2],
                             radii |-> radii.radii,
                             drawn |-> draw_wind_radii_arcs(
                                          at[1], at[2], radii.radii, th.color)])
                /\ IF k < Len(Thresholds)
                   THEN k' = k + 1 /\ pc' = pc
                   ELSE k' = 1 /\ pc' = "marker"
                /\ err' = err
    /\ UNCHANGED <<caller, args, call, archive, track, radius_scale, extent,
                   i, sign, markers, annotations>>

\* the marker and the annotation of row i, and the end of its turn
PlotMarker ==
    /\ pc = "marker"
    /\ LET row == track[i + 1]
           at == TransformPoint(row.LON, row.LAT)
       IN  /\ markers' = Append(markers,
                            [row |-> i, lon |-> row.LON, lat |-> row.LAT])
           /\ annotations' = Append(annotations,
                            [row |-> i, text |-> InfoStr(row), xy |-> at,
                             xytext |-> AnnotationOffset(sign)])
    /\ sign' = NextSign(sign)
    /\ i' = i + 1
    /\ pc' = IF i + 1 < Len(track) THEN "radii" ELSE "save"
    /\ UNCHANGED <<caller, args, call, archive, track, radius_scale, extent,
                   k, rings, err>>

\* plt.savefig or plt.show, and the return of the figure
PlotSave ==
    /\ pc = "save"
    /\ pc' = "done"
    /\ UNCHANGED <<caller, args, call, archive, track, radius_scale, extent,
                   i, k, sign, rings, markers, annotations, err>>

Next == main \/ GetStormTrack \/ _setup_map \/ PlotRadii \/ PlotMarker \/ PlotSave

Spec == Init /\ [][Next]_vars

----------------------------------------------------------------------------
(* What the properties speak of.                                           *)

\* plot_track has ended, by returning or by an exception
PlotEnded == pc \in {"done", "failed"}

\* get_storm_track has returned its track
Loaded ==
    \/ pc = "returned"
    \/ caller = "main" /\ pc \notin {"main", "get_storm_track"}

\* a quadrant value that is blank or missing
Absent(v) == v = Blank \/ v = NaN

\* a quadrant value that is a number: a non-empty run of digits
Numeric(v) == v # <<>> /\ \A j \in 1..Len(v) : v[j] \in Digits

\* the four quadrant values of a row for a threshold
QuadValues(row, prefix) == {row[prefix \o "_" \o q] : q \in {"SE", "NE", "SW", "NW"}}

\* the draw_wind_radii_arcs calls made for row r and a threshold
RingsOf(r, prefix) ==
    {j \in 1..Len(rings) : rings[j].row = r /\ rings[j].prefix = prefix}

HasMarker(r) == \E j \in 1..Len(markers) : markers[j].row = r
HasAnnotation(r) == \E j \in 1..Len(annotations) : annotations[j].row = r

Prefixes == {"USA_R34", "USA_R50", "USA_R64"}

\* the row of units, as opposed to an observation
IsUnitsRow(r) == r.NAME = Blank

\* positions (from 0) of the archive's observation rows that the request
\* selects: the name is the requested one, the time lies in the year
Selected ==
    {j \in 0..(Len(archive) - 1) :
        /\ ~IsUnitsRow(archive[j + 1])
        /\ archive[j + 1].NAME = call.name
        /\ archive[j + 1].ISO_TIME[1] = call.year}

\* a segment as the pair of its ends
Ends(seg) == {seg.lo, seg.hi}

----------------------------------------------------------------------------
(* C1: for every row and each threshold, plot_track draws exactly 4 arcs   *)
(* and 4 spokes when the four quadrant radii are present, and none when    *)
(* one is blank or missing, in which case the row's other thresholds, its  *)
(* marker and its annotation are still drawn.  (The scale meant is one a   *)
(* radius can be divided by, not zero.)                                    *)
C1_RingPerCompleteThreshold ==
    (PlotEnded /\ extent # <<>> /\ radius_scale # 0) =>
        \A r \in 0..(Len(track) - 1) : \A p \in Prefixes :
            LET vals == QuadValues(track[r + 1], p)
                drawn == RingsOf(r, p)
            IN  /\ (\A v \in vals : Numeric(v)) =>
                      /\ Cardinality(drawn) = 1
                      /\ \A j \in drawn :
                            /\ Len(rings[j].drawn.arcs) = 4
                            /\ Len(rings[j].drawn.spokes) = 4
                /\ (\E v \in vals : Absent(v)) =>
                      /\ drawn = {}
                      /\ HasMarker(r)
                      /\ HasAnnotation(r)

(* C2, as claimed: horizontal spoke 1 joins cx + r[SE] and cx - r[NE],     *)
(* horizontal spoke 2 joins cx + r[NW] and cx - r[SW], vertical spoke 1    *)
(* joins cy + r[SE] and cy - r[SW], vertical spoke 2 joins cy + r[NE] and  *)
(* cy - r[NW].                                                             *)
C2_SpokesAsClaimed ==
    \A j \in 1..Len(rings) :
        LET cx == rings[j].xcenter
            cy == rings[j].ycenter
            r == rings[j].radii
            sp == rings[j].drawn.spokes
        IN  /\ Len(sp) = 4
            /\ sp[1].orient = "h" /\ sp[1].at = cy
            /\ Ends(sp[1]) = {RAdd(cx, r[1]), RSub(cx, r[2])}
            /\ sp[2].orient = "h" /\ sp[2].at = cy
            /\ Ends(sp[2]) = {RAdd(cx, r[4]), RSub(cx, r[3])}
            /\ sp[3].orient = "v" /\ sp[3].at = cx
            /\ Ends(sp[3]) = {RAdd(cy, r[1]), RSub(cy, r[3])}
            /\ sp[4].orient = "v" /\ sp[4].at = cx
            /\ Ends(sp[4]) = {RAdd(cy, r[2]), RSub(cy, r[4])}

(* C2, amended: for radii [SE, NE, SW, NW], horizontal spoke 1 runs at     *)
(* y = cy from cx + r[SE] to cx + r[NW], horizontal spoke 2 at y = cy from *)
(* cx - r[NE] to cx - r[SW], vertical spoke 1 at x = cx from cy + r[SE] to *)
(* cy + r[NE], vertical spoke 2 at x = cx from cy - r[SW] to cy - r[NW].   *)
C2_SpokesJoinNeighbours ==
    \A j \in 1..Len(rings) :
        LET cx == rings[j].xcenter
            cy == rings[j].ycenter
            r == rings[j].radii
            sp == rings[j].drawn.spokes
        IN  /\ Len(sp) = 4
            /\ sp[1].orient = "h" /\ sp[1].at = cy
            /\ sp[1].lo = RAdd(cx, r[1]) /\ sp[1].hi = RAdd(cx, r[4])
            /\ sp[2].orient = "h" /\ sp[2].at = cy
            /\ sp[2].lo = RSub(cx, r[2]) /\ sp[2].hi = RSub(cx, r[3])
            /\ sp[3].orient = "v" /\ sp[3].at = cx
            /\ sp[3].lo = RAdd(cy, r[1]) /\ sp[3].hi = RAdd(cy, r[2])
            /\ sp[4].orient = "v" /\ sp[4].at = cx
            /\ sp[4].lo = RSub(cy, r[3]) /\ sp[4].hi = RSub(cy, r[4])

\* a ring was drawn whose four radii differ: 50/70, 60/70, 40/70, 55/70
C2_Witness ==
    \E j \in 1..Len(rings) :
        /\ rings[j].radii = <<Rat(50, 70), Rat(60, 70), Rat(40, 70), Rat(55, 70)>>
        /\ rings[j].xcenter = Rat(-40, 1)
        /\ rings[j].ycenter = Rat(20, 1)

(* C3: the annotation of the row at index i has the positive offset when   *)
(* i is even and the negative offset when i is odd, from index 0 on, on    *)
(* every call, whatever the rows hold and whether or not a ring was drawn; *)
(* a call that returns has annotated every row.                            *)
C3_AnnotationSideAlternates ==
    /\ \A j \in 1..Len(annotations) :
          /\ annotations[j].row = j - 1
          /\ annotations[j].xytext =
                IF (j - 1) % 2 = 0 THEN ANNOTATION_OFFSET_POS
                ELSE ANNOTATION_OFFSET_NEG
    /\ pc = "done" => Len(annotations) = Len(track)

\* three rows were annotated, the second of them without any ring
C3_Witness ==
    /\ pc = "done"
    /\ Len(annotations) = 3
    /\ annotations[2].xytext = ANNOTATION_OFFSET_NEG
    /\ annotations[3].xytext = ANNOTATION_OFFSET_POS
    /\ \A p \in Prefixes : RingsOf(1, p) = {}
    /\ RingsOf(0, "USA_R34") # {}

(* C4: for every signed longitude L in [-180, 180), normalize(L) lies in   *)
(* [0, 360), is congruent to L modulo 360 and equals normalize(L + 360);   *)
(* every row the loader returns has LON = normalize(its archive longitude) *)
(* and LON_180 = its archive longitude.                                    *)
C4_LongitudeNormalized ==
    Loaded =>
        /\ \A j \in 1..Len(track) :
              LET L == archive[track[j].idx + 1].LON
              IN  /\ L \in -180..179
                  /\ track[j].LON \in 0..359
                  /\ (track[j].LON - L) % 360 = 0
                  /\ track[j].LON = _lon_to_360(L + 360)
                  /\ track[j].LON_180 = L
        /\ (pc = "returned" /\ track # <<>>) =>
              \A L \in -180..179 :
                  /\ _lon_to_360(L) \in 0..359
                  /\ (_lon_to_360(L) - L) % 360 = 0
                  /\ _lon_to_360(L) = _lon_to_360(L + 360)

\* the loader returned the row whose longitude -40 became 320
C4_Witness ==
    /\ pc = "returned"
    /\ \E j \in 1..Len(track) : track[j].LON_180 = -40 /\ track[j].LON = 320
    /\ \E j \in 1..Len(track) : track[j].LON_180 = -180 /\ track[j].LON = 180

(* C5: with filter_missing_wmo on, the returned track has no row whose     *)
(* official wind or pressure is blank or missing; with it off, every row   *)
(* the name and the year select is returned, those with a blank or missing *)
(* official field included.  (The rows meant are those after the first of  *)
(* the archive, which the loader drops before it selects: see C7.)         *)
C5_FilterDropsBlankOrMissing ==
    pc = "returned" =>
        IF call.filter_missing_wmo
        THEN \A j \in 1..Len(track) :
                ~Absent(track[j].WMO_WIND) /\ ~Absent(track[j].WMO_PRES)
        ELSE \A s \in Selected \ {0} : \E j \in 1..Len(track) : track[j].idx = s

(* C6: when the archive is well formed and no row matches the name and the *)
(* year, get_storm_track returns an empty track and plot_track on it       *)
(* completes, with no ring, marker or annotation.                          *)
C6_EmptyTrackPlots ==
    (/\ caller = "main"
     /\ archive # <<>> /\ IsUnitsRow(archive[1])
     /\ Selected = {})
    =>  /\ Loaded => track = <<>>
        /\ (PlotEnded /\ extent # <<>>) =>
              /\ pc = "done"
              /\ err = "none"
              /\ rings = <<>> /\ markers = <<>> /\ annotations = <<>>

(* C7: when the first row after the column names is an observation that    *)
(* the request selects, it is in the returned track; an archive of that    *)
(* one row gives a track of one row.                                       *)
C7_FirstObservationKept ==
    (/\ pc = "returned"
     /\ 0 \in Selected
     /\ call.filter_missing_wmo =>
            /\ archive[1].WMO_WIND \notin {Blank, <<>>}
            /\ archive[1].WMO_PRES \notin {Blank, <<>>})
    =>  /\ \E j \in 1..Len(track) : track[j].idx = 0
        /\ Len(archive) = 1 => Len(track) = 1

(* C8: a quadrant value that is not a number is treated as absent: the     *)
(* rendering does not fail, draws no ring for that row and threshold, and  *)
(* draws the marker and the annotation of the row and of the rows after.   *)
(* (The scale meant is one a radius can be divided by, not zero.)          *)
C8_NonNumericIsAbsent ==
    (PlotEnded /\ extent # <<>> /\ track # <<>> /\ radius_scale # 0) =>
        /\ pc = "done"
        /\ \A r \in 0..(Len(track) - 1) :
              /\ HasMarker(r) /\ HasAnnotation(r)
              /\ \A p \in Prefixes :
                    (\E v \in QuadValues(track[r + 1], p) : ~Numeric(v))
                        => RingsOf(r, p) = {}

(* C9: cli.main calls the loader with the filter on exactly when the       *)
(* disable flag is absent, for every name and every year.                  *)
C9_FilterFollowsFlagOnly ==
    (caller = "main" /\ pc # "main") =>
        call.filter_missing_wmo = ~args.no_filter_wmo

(* C10: the returned track holds exactly the archive's observation rows    *)
(* whose name is the requested one and whose time lies in the year, less   *)
(* the rows the filter removes, in the order of the archive, each once.    *)
C10_ExactlyTheSelectedRowsInOrder ==
    pc = "returned" =>
        LET removed ==
                {s \in Selected :
                    /\ call.filter_missing_wmo
                    /\ \/ archive[s + 1].WMO_WIND = Blank
                       \/ archive[s + 1].WMO_PRES = Blank}
        IN  /\ {track[j].idx : j \in 1..Len(track)} = Selected \ removed
            /\ \A a, b \in 1..Len(track) : a < b => track[a].idx < track[b].idx

====
